---- MODULE Spec2Model ----
(***************************************************************************)
(* Model of src/main.py: the worksheet-selection heuristic                 *)
(* (analyze_xlsx_worksheets) and the page resolution of /convert.          *)
(*                                                                         *)
(* An archive is the list of its parts in enumeration order (namelist()).  *)
(* A part is a path plus what reading it yields.  A path is                *)
(*     dir + name + stem + ext                                             *)
(* where stem is the text between the name and the extension, a sequence   *)
(* of character codes: 0..9 are the digits '0'..'9', 10 is a letter.       *)
(* The content of a part is abstracted to what the code extracts from it:  *)
(*   ok     the bytes can be read and decoded as UTF-8                     *)
(*   cells  number of value markers ("<v>") in a worksheet                 *)
(*   codes  the words of a worksheet the style-code regex is tried on      *)
(*   imgs   number of "/image" occurrences in a drawing relationship part  *)
(*   refs   the stems of the "drawingN.xml" occurrences in a worksheet     *)
(*          relationship part, in textual order                            *)
(***************************************************************************)
EXTENDS Integers, Sequences, FiniteSets, TLC

VARIABLES ext, archive, pc, analysis, page, total_pages, target_page,
          prev, corrupted

vars == <<ext, archive, pc, analysis, page, total_pages, target_page,
          prev, corrupted>>

\* ------------------------------------------------------------------------
\* Bounds of the model
\* ------------------------------------------------------------------------
MaxParts == 4       \* parts in an archive
MaxPages == 2       \* pages of the rendered PDF
MaxImages == 5      \* image references in one drawing relationship part

\* ------------------------------------------------------------------------
\* Paths and text
\* ------------------------------------------------------------------------
IsDigits(s) == Len(s) > 0 /\ \A i \in 1..Len(s) : s[i] \in 0..9

RECURSIVE ToInt(_)
ToInt(s) == IF s = <<>> THEN 0
            ELSE 10 * ToInt(SubSeq(s, 1, Len(s) - 1)) + s[Len(s)]

\* String order of two stems followed by the same ".xml": a proper prefix
\* is smaller because "." sorts before every digit and letter.
RECURSIVE StemLess(_, _)
StemLess(s, t) ==
    IF t = <<>> THEN FALSE
    ELSE IF s = <<>> THEN TRUE
    ELSE IF s[1] # t[1] THEN s[1] < t[1]
    ELSE StemLess(Tail(s), Tail(t))

IsWorksheetPath(p) ==
    p.dir = "xl/worksheets/" /\ p.name = "sheet" /\ p.ext = ".xml"

IsDrawingRelsPath(p) ==
    p.dir = "xl/drawings/_rels/" /\ p.name = "drawing" /\ p.ext = ".xml.rels"

IsSheetRelsPath(p) ==
    p.dir = "xl/worksheets/_rels/" /\ p.name = "sheet" /\ p.ext = ".xml.rels"

Upper(w) ==
    CASE w = "der5" -> "DER5"
      [] w = "ear12" -> "EAR12"
      [] w = "style no" -> "STYLE NO"
      [] OTHER -> w

StyleMatch(w) == w \in {"DLER00268", "DER5", "RING7", "EAR12"}

\* ------------------------------------------------------------------------
\* Dictionaries that keep insertion order (worksheet_scores)
\* ------------------------------------------------------------------------
DictKeys(d) == {d[i].k : i \in 1..Len(d)}

DictGet(d, key) == (CHOOSE i \in 1..Len(d) : d[i].k = key)

DictVal(d, key) == d[DictGet(d, key)].v

DictPut(d, key, val) ==
    IF key \in DictKeys(d)
    THEN [d EXCEPT ![DictGet(d, key)] = [k |-> key, v |-> val]]
    ELSE Append(d, [k |-> key, v |-> val])

RECURSIVE MaxFrom(_, _, _)
MaxFrom(d, i, best) ==
    IF i > Len(d) THEN d[best].k
    ELSE MaxFrom(d, i + 1, IF d[i].v > d[best].v THEN i ELSE best)

\* mutant: max(worksheet_scores) without key=, the largest ordinal
MaxKeyByOrdinal(d) ==
    CHOOSE key \in DictKeys(d) : \A other \in DictKeys(d) : other <= key

MaxKey(d) == MaxFrom(d, 2, 1)

\* ------------------------------------------------------------------------
\* analyze_xlsx_worksheets
\* ------------------------------------------------------------------------
EmptyMap == [s \in {} |-> <<>>]

DefaultResult ==
    [raised |-> FALSE,
     scores |-> <<[k |-> 1, v |-> 0]>>,
     best_sheet |-> 1,
     drawing_image_count |-> EmptyMap,
     worksheet_to_drawing |-> EmptyMap,
     totals |-> <<>>]

RECURSIVE InsertSorted(_, _)
InsertSorted(sorted, p) ==
    IF sorted = <<>> THEN <<p>>
    ELSE IF StemLess(p.stem, Head(sorted).stem) THEN <<p>> \o sorted
    ELSE <<Head(sorted)>> \o InsertSorted(Tail(sorted), p)

RECURSIVE SortParts(_)
SortParts(ps) ==
    IF ps = <<>> THEN <<>>
    ELSE InsertSorted(SortParts(SubSeq(ps, 1, Len(ps) - 1)), ps[Len(ps)])

\* mutant: the sort of line 50 left out
WorksheetsUnsorted(file_list) == SelectSeq(file_list, IsWorksheetPath)

\* lines 49-50: the worksheet parts, sorted by path
Worksheets(file_list) == SortParts(SelectSeq(file_list, IsWorksheetPath))

\* lines 53-66: image count per drawing number (text), later parts overwrite
RECURSIVE DrawingImageCount(_, _, _)
DrawingImageCount(file_list, i, acc) ==
    IF i > Len(file_list) THEN acc
    ELSE LET f == file_list[i] IN
         IF IsDrawingRelsPath(f) /\ f.ok /\ IsDigits(f.stem)
         THEN DrawingImageCount(file_list, i + 1, (f.stem :> f.imgs) @@ acc)
         ELSE DrawingImageCount(file_list, i + 1, acc)

\* mutant: one try around the whole loop, an unreadable part ends it
RECURSIVE WorksheetToDrawingAborting(_, _, _)
WorksheetToDrawingAborting(file_list, i, acc) ==
    IF i > Len(file_list) THEN acc
    ELSE LET f == file_list[i] IN
         IF IsSheetRelsPath(f) /\ ~f.ok THEN acc
         ELSE IF IsSheetRelsPath(f) /\ IsDigits(f.stem) /\ f.refs # <<>>
         THEN WorksheetToDrawingAborting(file_list, i + 1,
                                         (f.stem :> f.refs[1]) @@ acc)
         ELSE WorksheetToDrawingAborting(file_list, i + 1, acc)

\* mutant: the last drawing mentioned instead of the first
RECURSIVE WorksheetToLastDrawing(_, _, _)
WorksheetToLastDrawing(file_list, i, acc) ==
    IF i > Len(file_list) THEN acc
    ELSE LET f == file_list[i] IN
         IF IsSheetRelsPath(f) /\ f.ok /\ IsDigits(f.stem) /\ f.refs # <<>>
         THEN WorksheetToLastDrawing(file_list, i + 1,
                                     (f.stem :> f.refs[Len(f.refs)]) @@ acc)
         ELSE WorksheetToLastDrawing(file_list, i + 1, acc)

\* lines 71-83: worksheet number (text) to the first drawing number its
\* relationship part mentions
RECURSIVE WorksheetToDrawing(_, _, _)
WorksheetToDrawing(file_list, i, acc) ==
    IF i > Len(file_list) THEN acc
    ELSE LET f == file_list[i] IN
         IF IsSheetRelsPath(f) /\ f.ok /\ IsDigits(f.stem) /\ f.refs # <<>>
         THEN WorksheetToDrawing(file_list, i + 1, (f.stem :> f.refs[1]) @@ acc)
         ELSE WorksheetToDrawing(file_list, i + 1, acc)

\* mutant: > for >= in the image thresholds
ImagePointsStrict(img_count) ==
    IF img_count > 4 THEN 100
    ELSE IF img_count > 3 THEN 75
    ELSE IF img_count > 2 THEN 40
    ELSE IF img_count > 1 THEN 20
    ELSE 0

\* lines 115-122
ImagePoints(img_count) ==
    IF img_count >= 4 THEN 100
    ELSE IF img_count >= 3 THEN 75
    ELSE IF img_count >= 2 THEN 40
    ELSE IF img_count >= 1 THEN 20
    ELSE 0

\* lines 128-132
FillPoints(cell_values) ==
    IF cell_values > 100 THEN 20
    ELSE IF cell_values > 50 THEN 10
    ELSE 0

\* lines 136-137
StylePoints(codes) ==
    IF \E w \in codes : StyleMatch(Upper(w)) THEN 30 ELSE 0

\* lines 101-141: the score of one numbered worksheet part
SheetScore(ws, w2d, dic) ==
    IF ~ws.ok THEN 0
    ELSE (IF ws.stem \in DOMAIN w2d
          THEN ImagePoints(IF w2d[ws.stem] \in DOMAIN dic
                           THEN dic[w2d[ws.stem]] ELSE 0)
          ELSE 0)
         + FillPoints(ws.cells)
         + StylePoints(ws.codes)

\* lines 96-144: the scoring loop; acc is [scores, totals]
RECURSIVE ScoreLoop(_, _, _, _, _)
ScoreLoop(worksheets, i, w2d, dic, acc) ==
    IF i > Len(worksheets) THEN acc
    ELSE LET ws == worksheets[i] IN
         IF ~IsDigits(ws.stem)
         THEN ScoreLoop(worksheets, i + 1, w2d, dic, acc)
         ELSE LET score == SheetScore(ws, w2d, dic) IN
              ScoreLoop(worksheets, i + 1, w2d, dic,
                  [scores |-> DictPut(acc.scores, ToInt(ws.stem), score),
                   totals |-> Append(acc.totals,
                                 [sheet_num |-> ws.stem, score |-> score])])

\* lines 150-156
BestSheet(worksheet_scores) ==
    IF worksheet_scores # <<>> THEN MaxKey(worksheet_scores) ELSE 1

\* mutant: the handler returns the scores collected so far
OnArchiveErrorKeepingScores(partial) ==
    [DefaultResult EXCEPT !.scores = partial.scores, !.totals = partial.totals]

\* lines 146-148: what the outer handler returns
OnArchiveError(partial) == DefaultResult

\* lines 33-161
analyze_xlsx_worksheets(a) ==
    IF ~a.openable THEN OnArchiveError([scores |-> <<>>, totals |-> <<>>])
    ELSE LET file_list == a.parts
             dic == DrawingImageCount(file_list, 1, EmptyMap)
             w2d == WorksheetToDrawing(file_list, 1, EmptyMap)
             res == ScoreLoop(Worksheets(file_list), 1, w2d, dic,
                              [scores |-> <<>>, totals |-> <<>>])
         IN [raised |-> FALSE,
             scores |-> res.scores,
             best_sheet |-> BestSheet(res.scores),
             drawing_image_count |-> dic,
             worksheet_to_drawing |-> w2d,
             totals |-> res.totals]

\* mutant: the requested page is not capped at the page count
ResolvePageUncapped(p, total, best) ==
    IF p > 0 THEN p
    ELSE (IF best > total THEN 1 ELSE best)

\* lines 268-275
ResolvePage(p, total, best) ==
    IF p > 0
    THEN (IF p < total THEN p ELSE total)
    ELSE (IF best > total THEN 1 ELSE best)

\* ------------------------------------------------------------------------
\* Uploaded files
\* ------------------------------------------------------------------------
Part(d, n, st, e, ok, cells, codes, imgs, refs) ==
    [dir |-> d, name |-> n, stem |-> st, ext |-> e, ok |-> ok,
     cells |-> cells, codes |-> codes, imgs |-> imgs, refs |-> refs]

Ws(st, ok, cells, codes) ==
    Part("xl/worksheets/", "sheet", st, ".xml", ok, cells, codes, 0, <<>>)

SheetRels(st, ok, refs) ==
    Part("xl/worksheets/_rels/", "sheet", st, ".xml.rels", ok, 0, {}, 0, refs)

DrawingRels(st, ok, imgs) ==
    Part("xl/drawings/_rels/", "drawing", st, ".xml.rels", ok, 0, {}, imgs, <<>>)

SharedStrings == Part("xl/", "sharedStrings", <<>>, ".xml", TRUE, 0, {}, 0, <<>>)

PlainOrRich(st) == {Ws(st, TRUE, 0, {}), Ws(st, TRUE, 101, {"DLER00268"})}

\* The parts an archive of the structural specification is drawn from: one
\* set of variants per path.
StructPaths ==
    << PlainOrRich(<<2>>),
       PlainOrRich(<<1, 0>>),
       PlainOrRich(<<1>>) \cup {Ws(<<1>>, FALSE, 101, {"DLER00268"})},
       PlainOrRich(<<0, 1>>),
       PlainOrRich(<<0>>),
       {Ws(<<10>>, TRUE, 101, {"DLER00268"})},
       {SheetRels(<<1>>, TRUE, r) : r \in {<<>>, <<(<<1>>)>>, <<(<<2>>), (<<1>>)>>}}
         \cup {SheetRels(<<1>>, FALSE, <<(<<1>>)>>)},
       {SheetRels(<<2>>, TRUE, <<(<<1>>)>>)},
       {DrawingRels(<<1>>, TRUE, 4), DrawingRels(<<1>>, FALSE, 4)},
       {DrawingRels(<<2>>, TRUE, 1)},
       {SharedStrings} >>

\* The parts of the scoring specification: one worksheet in full detail.
ScorePaths ==
    << {Ws(<<1>>, TRUE, c, w) :
            c \in {0, 50, 51, 100, 101},
            w \in {{}, {"STYLE NO"}, {"der5"}, {"RING", "ear12"}}}
         \cup {Ws(<<1>>, FALSE, 101, {"DLER00268"})},
       {SheetRels(<<1>>, TRUE, r) : r \in {<<>>, <<(<<1>>)>>}},
       {DrawingRels(<<1>>, TRUE, n) : n \in 0..MaxImages}
         \cup {DrawingRels(<<1>>, FALSE, 4)} >>

\* Every choice of at most n paths among paths[i..], one variant each.
RECURSIVE Gen(_, _, _)
Gen(paths, i, n) ==
    IF i > Len(paths) \/ n = 0 THEN {<<>>}
    ELSE Gen(paths, i + 1, n)
         \cup {<<c>> \o t : c \in paths[i], t \in Gen(paths, i + 1, n - 1)}

Reverse(s) == [i \in 1..Len(s) |-> s[Len(s) + 1 - i]]

Listings(paths, n) ==
    LET g == Gen(paths, 1, n) IN g \cup {Reverse(s) : s \in g}

Zip(parts) == [openable |-> TRUE, parts |-> parts]

NotZip == [openable |-> FALSE, parts |-> <<>>]

\* line 225
NoAnalysis ==
    [raised |-> FALSE, scores |-> <<>>, best_sheet |-> 1,
     drawing_image_count |-> EmptyMap, worksheet_to_drawing |-> EmptyMap,
     totals |-> <<>>]

PageInputs == (0 - 1)..(MaxPages + 1)

InitRest ==
    /\ pc = "idle"
    /\ analysis = NoAnalysis
    /\ page = 0
    /\ total_pages = 1
    /\ target_page = 0
    /\ prev = NoAnalysis
    /\ corrupted = 0

Init ==
    /\ \/ /\ ext = "xlsx"
          /\ archive \in {Zip(ps) : ps \in Listings(StructPaths, MaxParts)}
                           \cup {NotZip}
       \/ /\ ext = "xls"
          /\ archive = NotZip
    /\ InitRest

InitScore ==
    /\ ext = "xlsx"
    /\ archive \in {Zip(ps) : ps \in Listings(ScorePaths, MaxParts)}
    /\ InitRest

\* ------------------------------------------------------------------------
\* Handlers
\* ------------------------------------------------------------------------
\* POST /analyze, lines 341-371
analyze_excel ==
    /\ pc = "idle"
    /\ ext = "xlsx"
    /\ analysis' = analyze_xlsx_worksheets(archive)
    /\ pc' = "analyzed"
    /\ UNCHANGED <<ext, archive, page, total_pages, target_page, prev, corrupted>>

\* POST /convert, lines 187-338, for a file LibreOffice renders to t pages
convert_excel_to_image ==
    /\ pc = "idle"
    /\ \E p \in PageInputs, t \in 1..MaxPages :
          LET a == IF ext = "xlsx" THEN analyze_xlsx_worksheets(archive)
                   ELSE NoAnalysis
          IN /\ analysis' = a
             /\ page' = p
             /\ total_pages' = t
             /\ target_page' = ResolvePage(p, t, a.best_sheet)
    /\ pc' = "converted"
    /\ UNCHANGED <<ext, archive, prev, corrupted>>

IsRelsPath(p) == IsDrawingRelsPath(p) \/ IsSheetRelsPath(p)

CorruptPart(a, k) == [a EXCEPT !.parts[k].ok = FALSE]

\* The same file uploaded again with relationship part k made undecodable.
upload_corrupted ==
    /\ pc = "analyzed"
    /\ corrupted = 0
    /\ \E k \in 1..Len(archive.parts) :
          /\ IsRelsPath(archive.parts[k])
          /\ archive.parts[k].ok
          /\ archive' = CorruptPart(archive, k)
          /\ corrupted' = k
    /\ prev' = analysis
    /\ analysis' = NoAnalysis
    /\ pc' = "idle"
    /\ UNCHANGED <<ext, page, total_pages, target_page>>

Next == analyze_excel \/ convert_excel_to_image \/ upload_corrupted

Spec == Init /\ [][Next]_vars

SpecScore == InitScore /\ [][Next]_vars

\* ------------------------------------------------------------------------
\* Properties
\* ------------------------------------------------------------------------
\* analysis holds what analyze_xlsx_worksheets returned for archive
Selected == pc \in {"analyzed", "converted"} /\ ext = "xlsx"

WorksheetParts(a) == {i \in 1..Len(a.parts) : IsWorksheetPath(a.parts[i])}

NumberedWorksheets(a) ==
    {i \in WorksheetParts(a) : IsDigits(a.parts[i].stem)}

PartOfSheet(a, st) ==
    a.parts[CHOOSE i \in NumberedWorksheets(a) : a.parts[i].stem = st]

OneSheetOneZero == <<[k |-> 1, v |-> 0]>>

\* C1: an archive that opens but has no worksheet part yields scores {1: 0}
\* and bestSheet 1.
C1_NoWorksheetsDefault ==
    (Selected /\ archive.openable /\ WorksheetParts(archive) = {})
        => (analysis.scores = OneSheetOneZero /\ analysis.best_sheet = 1)

\* The three signals as the claim tabulates them.
ImageSignal(n) ==
    CASE n >= 4 -> 100
      [] n = 3 -> 75
      [] n = 2 -> 40
      [] n = 1 -> 20
      [] OTHER -> 0

FillSignal(n) ==
    CASE n > 100 -> 20
      [] n \in 51..100 -> 10
      [] OTHER -> 0

PatternSignal(codes) ==
    IF \E w \in codes : StyleMatch(Upper(w)) THEN 30 ELSE 0

\* image count of the drawing mapped to worksheet st, 0 when there is none
MappedImages(r, st) ==
    IF st \in DOMAIN r.worksheet_to_drawing
       /\ r.worksheet_to_drawing[st] \in DOMAIN r.drawing_image_count
    THEN r.drawing_image_count[r.worksheet_to_drawing[st]]
    ELSE 0

SignalSum(r, ws) ==
    ImageSignal(MappedImages(r, ws.stem)) + FillSignal(ws.cells)
        + PatternSignal(ws.codes)

\* C2: the score recorded for a readable worksheet part is the sum of the
\* image-volume, fill-density and identifier-pattern signals; every readable
\* numbered worksheet part gets a score recorded.
C2_ScoreIsSumOfSignals ==
    (Selected /\ archive.openable) =>
        /\ \A j \in 1..Len(analysis.totals) :
              LET ws == PartOfSheet(archive, analysis.totals[j].sheet_num) IN
              ws.ok =>
                 /\ analysis.totals[j].score = SignalSum(analysis, ws)
                 /\ (Cardinality({i \in NumberedWorksheets(archive) :
                         ToInt(archive.parts[i].stem) = ToInt(ws.stem)}) = 1
                       => DictVal(analysis.scores, ToInt(ws.stem))
                              = SignalSum(analysis, ws))
        /\ \A i \in NumberedWorksheets(archive) :
              \E j \in 1..Len(analysis.totals) :
                 analysis.totals[j].sheet_num = archive.parts[i].stem

\* a worksheet with 2 images, more than 100 markers and a style code scored 90,
\* and the analysis also met a worksheet scored 100 from 4 images alone
C2_Witness ==
    /\ Selected
    /\ \E j \in 1..Len(analysis.totals) :
          LET ws == PartOfSheet(archive, analysis.totals[j].sheet_num) IN
          /\ ws.ok
          /\ MappedImages(analysis, ws.stem) = 2
          /\ ws.cells > 100
          /\ PatternSignal(ws.codes) = 30
          /\ analysis.totals[j].score = 90

\* C3: when at least one worksheet part is scored, bestSheet is a key of
\* scores and no key has a strictly greater score.
C3_BestIsMaximal ==
    (Selected /\ analysis.totals # <<>>) =>
        /\ analysis.best_sheet \in DictKeys(analysis.scores)
        /\ \A key \in DictKeys(analysis.scores) :
              DictVal(analysis.scores, key)
                  <= DictVal(analysis.scores, analysis.best_sheet)

C3_Witness ==
    /\ Selected
    /\ Len(analysis.scores) >= 3
    /\ analysis.scores[1].v < DictVal(analysis.scores, analysis.best_sheet)
    /\ \E key \in DictKeys(analysis.scores) : key > analysis.best_sheet

\* C4 as written: the requested page when 0 < page <= total pages, otherwise
\* bestSheet, replaced by 1 when it exceeds total pages.
C4_PageOrBestSheet ==
    pc = "converted" =>
        target_page =
            IF page > 0 /\ page <= total_pages THEN page
            ELSE IF analysis.best_sheet > total_pages THEN 1
            ELSE analysis.best_sheet

\* C4 amended: a positive requested page wins and is capped at total pages;
\* only a requested page <= 0 falls back to bestSheet (1 when it exceeds
\* total pages).
C4_PageCappedOrBestSheet ==
    pc = "converted" =>
        target_page =
            IF page > 0 /\ page <= total_pages THEN page
            ELSE IF page > total_pages THEN total_pages
            ELSE IF analysis.best_sheet > total_pages THEN 1
            ELSE analysis.best_sheet

C4_Witness ==
    /\ pc = "converted"
    /\ page > total_pages
    /\ target_page = total_pages
    /\ analysis.best_sheet # total_pages

\* The worksheets the corruption of part c cannot reach: those that do not
\* own a corrupted worksheet relationship part and are not mapped to the
\* drawing of a corrupted drawing relationship part.
Unaffected(c, before, st) ==
    /\ IsSheetRelsPath(c) => st # c.stem
    /\ IsDrawingRelsPath(c) =>
          ~(st \in DOMAIN before.worksheet_to_drawing
            /\ before.worksheet_to_drawing[st] = c.stem)

\* C5: after one relationship part is corrupted, the analysis does not raise
\* and every unaffected worksheet keeps its score.
C5_CorruptionIsLocal ==
    (pc = "analyzed" /\ corrupted # 0) =>
        LET c == archive.parts[corrupted] IN
        /\ ~analysis.raised
        /\ Len(analysis.totals) = Len(prev.totals)
        /\ \A j \in 1..Len(analysis.totals) :
              Unaffected(c, prev, analysis.totals[j].sheet_num)
                  => analysis.totals[j] = prev.totals[j]
        /\ \A key \in DictKeys(prev.scores) :
              (\A j \in 1..Len(prev.totals) :
                  ToInt(prev.totals[j].sheet_num) = key
                      => Unaffected(c, prev, prev.totals[j].sheet_num))
                 => /\ key \in DictKeys(analysis.scores)
                    /\ DictVal(analysis.scores, key) = DictVal(prev.scores, key)

\* the corruption took the image points from one worksheet and another,
\* unaffected, worksheet kept its positive score
C5_Witness ==
    /\ pc = "analyzed"
    /\ corrupted # 0
    /\ \E j, m \in 1..Len(analysis.totals) :
          /\ analysis.totals[j].score < prev.totals[j].score
          /\ Unaffected(archive.parts[corrupted], prev,
                        analysis.totals[m].sheet_num)
          /\ analysis.totals[m].score > 0
          /\ analysis.totals[m].score = prev.totals[m].score

\* C6: an input that cannot be opened as an archive yields scores {1: 0} and
\* bestSheet 1 without raising.
C6_UnreadableArchiveDefault ==
    (Selected /\ ~archive.openable) =>
        /\ ~analysis.raised
        /\ analysis.scores = OneSheetOneZero
        /\ analysis.best_sheet = 1

C6_Witness == pc = "analyzed" /\ ~archive.openable

SheetRelsRead(a) ==
    {i \in 1..Len(a.parts) :
        IsSheetRelsPath(a.parts[i]) /\ a.parts[i].ok /\ IsDigits(a.parts[i].stem)}

ImagePartOfScore(r, j) ==
    r.totals[j].score
        - FillSignal(PartOfSheet(archive, r.totals[j].sheet_num).cells)
        - PatternSignal(PartOfSheet(archive, r.totals[j].sheet_num).codes)

\* C7 as written: a mapping is recorded exactly when the worksheet's
\* relationship part references exactly one drawing.
C7_MappingOnlyForOneDrawing ==
    (Selected /\ archive.openable) =>
        \A i \in SheetRelsRead(archive) :
            LET f == archive.parts[i] IN
            (f.stem \in DOMAIN analysis.worksheet_to_drawing) <=> (Len(f.refs) = 1)

\* C7 amended: a mapping is recorded exactly when the relationship part
\* references at least one drawing, and it maps to the first one referenced;
\* a worksheet without a recorded mapping has image-volume signal 0.
C7_MappingToFirstDrawing ==
    (Selected /\ archive.openable) =>
        /\ \A i \in SheetRelsRead(archive) :
              LET f == archive.parts[i] IN
              /\ (f.stem \in DOMAIN analysis.worksheet_to_drawing)
                     <=> (Len(f.refs) >= 1)
              /\ Len(f.refs) >= 1
                     => analysis.worksheet_to_drawing[f.stem] = f.refs[1]
        /\ \A j \in 1..Len(analysis.totals) :
              (/\ PartOfSheet(archive, analysis.totals[j].sheet_num).ok
               /\ analysis.totals[j].sheet_num
                      \notin DOMAIN analysis.worksheet_to_drawing)
                 => ImagePartOfScore(analysis, j) = 0

\* a relationship part naming two drawings mapped its worksheet to the first,
\* and the worksheet got that drawing's image points
C7_Witness ==
    /\ Selected
    /\ \E i \in SheetRelsRead(archive), j \in 1..Len(analysis.totals) :
          LET f == archive.parts[i] IN
          /\ Len(f.refs) = 2
          /\ f.refs[1] # f.refs[2]
          /\ analysis.worksheet_to_drawing[f.stem] = f.refs[1]
          /\ analysis.totals[j].sheet_num = f.stem
          /\ ImagePartOfScore(analysis, j) > 0

\* C8: every key of scores stands for exactly one worksheet part.
C8_OrdinalIsOnePart ==
    (Selected /\ archive.openable) =>
        \A key \in DictKeys(analysis.scores) :
            Cardinality({i \in NumberedWorksheets(archive) :
                            ToInt(archive.parts[i].stem) = key}) = 1

Tied(r) ==
    {key \in DictKeys(r.scores) :
        DictVal(r.scores, key) = DictVal(r.scores, r.best_sheet)}

TiedParts(a, r) ==
    {i \in NumberedWorksheets(a) : ToInt(a.parts[i].stem) \in Tied(r)}

FirstEnumerated(a, r) ==
    CHOOSE i \in TiedParts(a, r) : \A m \in TiedParts(a, r) : i <= m

FirstByPath(a, r) ==
    CHOOSE i \in TiedParts(a, r) :
        \A m \in TiedParts(a, r) :
            m # i => StemLess(a.parts[i].stem, a.parts[m].stem)

IsTie(r) == r.totals # <<>> /\ Cardinality(Tied(r)) >= 2

\* C9 as written: on a tie bestSheet is the tied ordinal whose worksheet part
\* comes first in the archive's enumeration order.
C9_TieByEnumerationOrder ==
    (Selected /\ IsTie(analysis)) =>
        analysis.best_sheet
            = ToInt(archive.parts[FirstEnumerated(archive, analysis)].stem)

\* C9 amended: on a tie bestSheet is the tied ordinal whose worksheet part
\* comes first in the sorted order of the worksheet paths, and listing the
\* same parts in the opposite order returns the same bestSheet.
C9_TieBySortedPath ==
    (Selected /\ IsTie(analysis)) =>
        /\ analysis.best_sheet
               = ToInt(archive.parts[FirstByPath(archive, analysis)].stem)
        /\ analyze_xlsx_worksheets(Zip(Reverse(archive.parts))).best_sheet
               = analysis.best_sheet

C9_Witness ==
    /\ Selected
    /\ IsTie(analysis)
    /\ FirstEnumerated(archive, analysis) # FirstByPath(archive, analysis)
    /\ analysis.best_sheet
           # ToInt(archive.parts[FirstEnumerated(archive, analysis)].stem)
    /\ DictVal(analysis.scores, analysis.best_sheet) > 0

\* C10: the page handed to pdftoppm lies in 1..total_pages.
C10_TargetPageInRange ==
    (pc = "converted" /\ total_pages >= 1) => target_page \in 1..total_pages

====
